---- MODULE Spec2Model ----
(***************************************************************************)
(* Model of the snowboy Detector (snowboy.go): hotword registration, the   *)
(* lazily initialized engine, the ReadAndDetect streaming loop, and the    *)
(* routing of engine result codes with silence accumulation.               *)
(*                                                                         *)
(* Durations are counted in milliseconds.  Strings are sequences of        *)
(* one-character strings.  A sensitivity is counted in hundredths.         *)
(* A byte of the read buffer is "zero" (never written), "fresh" (written   *)
(* by the latest read) or "stale" (written by an earlier read).            *)
(***************************************************************************)
EXTENDS Integers, Sequences, FiniteSets, TLC

VARIABLES
    initialized,       \* Detector.initialized
    raw,               \* Detector.raw: the engine handle and what it was built with
    handlers,          \* Detector.handlers: result code -> handlerKeyword
    modelStr,          \* Detector.modelStr
    sensitivityStr,    \* Detector.sensitivityStr
    silenceThreshold,  \* Detector.silenceThreshold
    silenceElapsed,    \* Detector.silenceElapsed
    bytes,             \* the buffer of the running ReadAndDetect (<<>> when none runs)
    pc,                \* "idle", or "loop" while ReadAndDetect is at the top of its for loop
    ret,               \* what ReadAndDetect returned, if it was the latest call
                       \* and has returned ("none" otherwise)
    closeRet,          \* what Close returned, if it was the latest call
    live,              \* history: engines constructed and not yet deleted
    hotwords,          \* history: the hotwords passed to Handle, in order, each with
                       \* its handler and the result code Handle bound it under
    silenceSet,        \* history: HandleSilence has been called
    silenceRun,        \* history: duration of the bytes read in the current run of
                       \* consecutive silence chunks
    last               \* history: what the latest loop iteration did, if
                       \* ReadAndDetect was the latest call

vars == <<initialized, raw, handlers, modelStr, sensitivityStr, silenceThreshold,
          silenceElapsed, bytes, pc, ret, closeRet, live, hotwords,
          silenceSet, silenceRun, last>>

----------------------------------------------------------------------------
(* Bounds of the model *)

\* the buffer of ReadAndDetect holds BufSize bytes (2048 in the source)
BufSize == 2
\* at most MaxHotwords calls of Handle
MaxHotwords == 2
\* the engine answers positive codes 1..MaxCode
MaxCode == 2
\* the engine stops reporting silence once silenceElapsed has reached MaxElapsed
MaxElapsed == 1000

(* Program constants *)

snowboyResultSilence == -2
snowboyResultError == -1
snowboyResultNoDetection == 0
\* time.Second, in milliseconds
Second == 1000
\* the gain NewDetector gives
DefaultGain == 1

(* Inputs *)

Thresholds == {0, 1000}
\* the handler passed to HandleSilence
SilenceHandlers == {"hs"}
\* sample rate, channels and bit depth the engine may report
Formats == { [sampleRate |-> 2, numChannels |-> 1, bitsPerSample |-> 16] }
Results == {snowboyResultSilence, snowboyResultError, snowboyResultNoDetection}
              \cup (1 .. MaxCode)

----------------------------------------------------------------------------
(* Pure functions *)

\* strings.TrimRight(s, cutset): drop trailing characters that are in cutset
RECURSIVE TrimRight(_, _)
TrimRight(s, cutset) ==
    IF s # <<>> /\ s[Len(s)] \in cutset
    THEN TrimRight(SubSeq(s, 1, Len(s) - 1), cutset)
    ELSE s

\* the last element of strings.Split(s, "/")
RECURSIVE LastPart(_)
LastPart(s) ==
    IF s = <<>> THEN <<>>
    ELSE IF s[Len(s)] = "/" THEN <<>>
    ELSE Append(LastPart(SubSeq(s, 1, Len(s) - 1)), s[Len(s)])

Digit(i) == <<"0", "1", "2", "3", "4", "5", "6", "7", "8", "9">>[i + 1]

\* strconv.FormatFloat(s, 'f', 2, 64) of a sensitivity of c hundredths
FormatFloat(c) ==
    <<Digit(c \div 100), ".", Digit((c \div 10) % 10), Digit(c % 10)>>

NewHotword(model, sensitivity) ==
    [Model |-> model,
     Sensitivity |-> sensitivity,
     Name |-> LastPart(TrimRight(model, {".", "u", "m", "d", "l"}))]

\* the hotwords and handlers passed to Handle
Registrations ==
    { [hotword |-> NewHotword(<<"a", "/", "f", ".", "u", "m", "d", "l">>, 50),
       Handler |-> "h1"],
      [hotword |-> NewHotword(<<"b", "l">>, 45), Handler |-> "h2"] }

\* len(d.handlers)
LenHandlers(h) == Cardinality(DOMAIN h)

NoEngine == [state |-> "nil", models |-> <<>>, sens |-> <<>>, gain |-> 0,
             format |-> [sampleRate |-> 0, numChannels |-> 0, bitsPerSample |-> 0]]

NoStep == [kind |-> "none", n |-> 0, result |-> 0, engineCalled |-> FALSE,
           data |-> <<>>, called |-> <<>>, err |-> "nil", before |-> 0, run |-> 0]

----------------------------------------------------------------------------
Init ==
    /\ initialized = FALSE
    /\ raw = NoEngine
    /\ handlers = <<>>
    /\ modelStr = <<>>
    /\ sensitivityStr = <<>>
    /\ silenceThreshold = 0
    /\ silenceElapsed = 0
    /\ bytes = <<>>
    /\ pc = "idle"
    /\ ret = "none"
    /\ closeRet = "none"
    /\ live = 0
    /\ hotwords = <<>>
    /\ silenceSet = FALSE
    /\ silenceRun = 0
    /\ last = NoStep

\* Detector.Handle (and HandleFunc, which wraps the function and calls Handle)
Handle(hotword, handler) ==
    /\ pc = "idle"
    /\ Len(hotwords) < MaxHotwords
    /\ LET sep == IF LenHandlers(handlers) > 0 THEN <<",">> ELSE <<>>
       IN /\ modelStr' = modelStr \o sep \o hotword.Model
          /\ sensitivityStr' = sensitivityStr \o sep \o FormatFloat(hotword.Sensitivity)
    /\ handlers' = ((LenHandlers(handlers) + 1) :>
                        [Handler |-> handler, keyword |-> hotword.Name]) @@ handlers
    /\ hotwords' = Append(hotwords, [hotword |-> hotword, Handler |-> handler,
                                     code |-> LenHandlers(handlers) + 1])
    /\ ret' = "none" /\ closeRet' = "none" /\ last' = NoStep
    /\ UNCHANGED <<initialized, raw, silenceThreshold, silenceElapsed, bytes, pc,
                   live, silenceSet, silenceRun>>

\* Detector.HandleSilence (and HandleSilenceFunc)
HandleSilence(threshold, handler) ==
    /\ pc = "idle"
    /\ silenceThreshold' = threshold
    /\ handlers' = (snowboyResultSilence :>
                        [Handler |-> handler, keyword |-> <<"silence">>]) @@ handlers
    /\ silenceSet' = TRUE
    /\ ret' = "none" /\ closeRet' = "none" /\ last' = NoStep
    /\ UNCHANGED <<initialized, raw, modelStr, sensitivityStr, silenceElapsed, bytes,
                   pc, live, hotwords, silenceRun>>

\* the engine's RunDetection on one chunk: any result code, but no more silence
\* once the accumulator has reached MaxElapsed
EngineResult(res, elapsed) ==
    /\ res \in Results
    /\ res = snowboyResultSilence => elapsed < MaxElapsed

\* data.Read(bytes) returning n: the first n bytes of the buffer are overwritten
Fill(buf, n) ==
    [i \in 1 .. BufSize |->
        IF i <= n THEN "fresh" ELSE IF buf[i] = "fresh" THEN "stale" ELSE buf[i]]

\* the argument ReadAndDetect passes to runDetection after reading n bytes
Chunk(buf, n) == buf

\* dataElapseTime of runDetection
ElapseTime(len, format) ==
    (len * Second) \div
        (format.numChannels * (format.bitsPerSample \div 8) * format.sampleRate)

\* runDetection resetting silenceElapsed only when nothing was detected
runDetection_ResetOnlyOnZero(data, engineResult, elapsed, format) ==
    IF Len(data) = 0
    THEN [result |-> 0, elapsed |-> elapsed, engineCalled |-> FALSE]
    ELSE IF engineResult = snowboyResultSilence
    THEN [result |-> engineResult,
          elapsed |-> elapsed + ElapseTime(Len(data), format),
          engineCalled |-> TRUE]
    ELSE [result |-> engineResult,
          elapsed |-> IF engineResult = snowboyResultNoDetection THEN 0 ELSE elapsed,
          engineCalled |-> TRUE]

\* runDetection not resetting silenceElapsed when nothing was detected
runDetection_KeepOnZero(data, engineResult, elapsed, format) ==
    IF Len(data) = 0
    THEN [result |-> 0, elapsed |-> elapsed, engineCalled |-> FALSE]
    ELSE IF engineResult = snowboyResultSilence
    THEN [result |-> engineResult,
          elapsed |-> elapsed + ElapseTime(Len(data), format),
          engineCalled |-> TRUE]
    ELSE [result |-> engineResult,
          elapsed |-> IF engineResult = snowboyResultNoDetection THEN elapsed ELSE 0,
          engineCalled |-> TRUE]

\* Detector.runDetection: the result it returns, the silenceElapsed it leaves,
\* and whether it called the engine (which then answered engineResult)
runDetection(data, engineResult, elapsed, format) ==
    IF Len(data) = 0
    THEN [result |-> 0, elapsed |-> elapsed, engineCalled |-> FALSE]
    ELSE IF engineResult = snowboyResultSilence
    THEN [result |-> engineResult,
          elapsed |-> elapsed + ElapseTime(Len(data), format),
          engineCalled |-> TRUE]
    ELSE [result |-> engineResult, elapsed |-> 0, engineCalled |-> TRUE]

\* the outcomes of route: no error and no call, an error, a call of the handler
\* bound to result (handlerKeyword.call passes the stored keyword)
RouteNil(elapsed) == [err |-> "nil", elapsed |-> elapsed, called |-> <<>>]
RouteErr(err, elapsed) == [err |-> err, elapsed |-> elapsed, called |-> <<>>]
RouteCall(h, result) ==
    [err |-> "nil", elapsed |-> 0,
     called |-> <<[Handler |-> h[result].Handler, keyword |-> h[result].keyword]>>]

\* route holding every handler back while silenceElapsed is below the threshold
route_ThresholdOnAll(result, h, elapsed, threshold) ==
    IF result = snowboyResultError
    THEN RouteErr("SnowboyLibraryError", elapsed)
    ELSE IF result # snowboyResultNoDetection
    THEN IF result \in DOMAIN h
         THEN IF elapsed < threshold
              THEN RouteNil(elapsed)
              ELSE RouteCall(h, result)
         ELSE RouteErr("NoHandler", elapsed)
    ELSE RouteNil(elapsed)

\* route dropping a positive code that has no handler
route_DropUnboundKeyword(result, h, elapsed, threshold) ==
    IF result = snowboyResultError
    THEN RouteErr("SnowboyLibraryError", elapsed)
    ELSE IF result # snowboyResultNoDetection
    THEN IF result \in DOMAIN h
         THEN IF result = snowboyResultSilence /\ elapsed < threshold
              THEN RouteNil(elapsed)
              ELSE RouteCall(h, result)
         ELSE IF result > 0 THEN RouteNil(elapsed) ELSE RouteErr("NoHandler", elapsed)
    ELSE RouteNil(elapsed)

\* route dropping a silence result that has no handler
route_DropUnboundSilence(result, h, elapsed, threshold) ==
    IF result = snowboyResultError
    THEN RouteErr("SnowboyLibraryError", elapsed)
    ELSE IF result # snowboyResultNoDetection
    THEN IF result \in DOMAIN h
         THEN IF result = snowboyResultSilence /\ elapsed < threshold
              THEN RouteNil(elapsed)
              ELSE RouteCall(h, result)
         ELSE IF result = snowboyResultSilence
              THEN RouteNil(elapsed)
              ELSE RouteErr("NoHandler", elapsed)
    ELSE RouteNil(elapsed)

\* route without the test for the engine-error code
route_ErrorAsCode(result, h, elapsed, threshold) ==
    IF result # snowboyResultNoDetection
    THEN IF result \in DOMAIN h
         THEN IF result = snowboyResultSilence /\ elapsed < threshold
              THEN RouteNil(elapsed)
              ELSE RouteCall(h, result)
         ELSE RouteErr("NoHandler", elapsed)
    ELSE RouteNil(elapsed)

\* route calling the handler without resetting silenceElapsed
route_NoResetOnCall(result, h, elapsed, threshold) ==
    IF result = snowboyResultError
    THEN RouteErr("SnowboyLibraryError", elapsed)
    ELSE IF result # snowboyResultNoDetection
    THEN IF result \in DOMAIN h
         THEN IF result = snowboyResultSilence /\ elapsed < threshold
              THEN RouteNil(elapsed)
              ELSE [RouteCall(h, result) EXCEPT !.elapsed = elapsed]
         ELSE RouteErr("NoHandler", elapsed)
    ELSE RouteNil(elapsed)

\* Detector.route: the error it returns, the silenceElapsed it leaves, and the
\* handler calls it makes
route(result, h, elapsed, threshold) ==
    IF result = snowboyResultError
    THEN RouteErr("SnowboyLibraryError", elapsed)
    ELSE IF result # snowboyResultNoDetection
    THEN IF result \in DOMAIN h
         THEN IF result = snowboyResultSilence /\ elapsed < threshold
              THEN RouteNil(elapsed)
              ELSE RouteCall(h, result)
         ELSE RouteErr("NoHandler", elapsed)
    ELSE RouteNil(elapsed)

\* initialize without the test of d.initialized
initialize_NoGuard(format) ==
    /\ raw' = [state |-> "live", models |-> modelStr, sens |-> sensitivityStr,
               gain |-> DefaultGain, format |-> format]
    /\ initialized' = TRUE
    /\ live' = live + 1

\* Detector.initialize; the engine constructed reports the given format
initialize(format) ==
    IF initialized
    THEN UNCHANGED <<initialized, raw, live>>
    ELSE /\ raw' = [state |-> "live", models |-> modelStr, sens |-> sensitivityStr,
                    gain |-> DefaultGain, format |-> format]
         /\ initialized' = TRUE
         /\ live' = live + 1

\* Close without the test of d.initialized
Close_NoGuard ==
    /\ pc = "idle"
    /\ initialized' = FALSE
    /\ raw' = [NoEngine EXCEPT !.state = "deleted"]
    /\ live' = live - 1
    /\ closeRet' = "nil"
    /\ ret' = "none" /\ last' = NoStep
    /\ UNCHANGED <<handlers, modelStr, sensitivityStr, silenceThreshold, silenceElapsed,
                   bytes, pc, hotwords, silenceSet, silenceRun>>

\* Detector.Close
Close ==
    /\ pc = "idle"
    /\ IF initialized
       THEN /\ initialized' = FALSE
            /\ raw' = [NoEngine EXCEPT !.state = "deleted"]
            /\ live' = live - 1
            /\ closeRet' = "nil"
       ELSE /\ closeRet' = "snowboy not initialize"
            /\ UNCHANGED <<initialized, raw, live>>
    /\ ret' = "none" /\ last' = NoStep
    /\ UNCHANGED <<handlers, modelStr, sensitivityStr, silenceThreshold, silenceElapsed,
                   bytes, pc, hotwords, silenceSet, silenceRun>>

\* Detector.AudioFormat called by the client
AudioFormat(format) ==
    /\ pc = "idle"
    /\ initialize(format)
    /\ ret' = "none" /\ closeRet' = "none" /\ last' = NoStep
    /\ UNCHANGED <<handlers, modelStr, sensitivityStr, silenceThreshold, silenceElapsed,
                   bytes, pc, hotwords, silenceSet, silenceRun>>

\* Detector.ReadAndDetect, up to the top of its loop
ReadAndDetect(format) ==
    /\ pc = "idle"
    /\ initialize(format)
    /\ bytes' = [i \in 1 .. BufSize |-> "zero"]
    /\ pc' = "loop"
    /\ ret' = "none"
    /\ closeRet' = "none"
    /\ last' = NoStep
    /\ UNCHANGED <<handlers, modelStr, sensitivityStr, silenceThreshold, silenceElapsed,
                   hotwords, silenceSet, silenceRun>>

\* runDetection then route on the buffer after a read of n bytes; final says
\* whether ReadAndDetect returns whatever route returns
Detect(kind, n, res, final) ==
    LET buf == Fill(bytes, n)
        data == Chunk(buf, n)
        det == runDetection(data, res, silenceElapsed, raw.format)
        rt == route(det.result, handlers, det.elapsed, silenceThreshold)
        run == IF det.engineCalled /\ det.result = snowboyResultSilence
               THEN silenceRun + ElapseTime(n, raw.format)
               ELSE IF det.engineCalled THEN 0 ELSE silenceRun
    IN /\ EngineResult(res, silenceElapsed)
       /\ bytes' = IF final \/ rt.err # "nil" THEN <<>> ELSE buf
       /\ silenceElapsed' = rt.elapsed
       /\ silenceRun' = IF rt.called # <<>> THEN 0 ELSE run
       /\ last' = [kind |-> kind, n |-> n, result |-> det.result,
                   engineCalled |-> det.engineCalled,
                   data |-> IF det.engineCalled THEN data ELSE <<>>,
                   called |-> rt.called, err |-> rt.err, before |-> silenceElapsed,
                   run |-> run]
       /\ IF final \/ rt.err # "nil"
          THEN pc' = "idle" /\ ret' = rt.err
          ELSE pc' = "loop" /\ ret' = "none"
       /\ UNCHANGED <<initialized, raw, handlers, modelStr, sensitivityStr,
                      silenceThreshold, closeRet, live, hotwords, silenceSet>>

\* one iteration of the loop: Read gives n > 0 bytes and no error
ReadChunk(n, res) ==
    /\ pc = "loop"
    /\ n > 0
    /\ Detect("chunk", n, res, FALSE)

\* the io.EOF branch returning err like the branch for other errors
ReadEOF_ReturnEOF(n, res) ==
    /\ pc = "loop"
    /\ res \in Results
    /\ bytes' = <<>>
    /\ pc' = "idle"
    /\ ret' = "EOF"
    /\ last' = [NoStep EXCEPT !.kind = "eof", !.n = n, !.before = silenceElapsed,
                              !.run = silenceRun]
    /\ UNCHANGED <<initialized, raw, handlers, modelStr, sensitivityStr,
                   silenceThreshold, silenceElapsed, closeRet, live,
                   hotwords, silenceSet, silenceRun>>

\* one iteration of the loop: Read gives io.EOF (with n bytes, possibly 0)
ReadEOF(n, res) ==
    /\ pc = "loop"
    /\ Detect("eof", n, res, TRUE)

\* one iteration of the loop: Read gives another error (and any number of bytes,
\* which ReadAndDetect does not look at)
ReadError ==
    /\ pc = "loop"
    /\ bytes' = <<>>
    /\ pc' = "idle"
    /\ ret' = "ReadError"
    /\ last' = [NoStep EXCEPT !.kind = "error", !.before = silenceElapsed,
                              !.run = silenceRun]
    /\ UNCHANGED <<initialized, raw, handlers, modelStr, sensitivityStr,
                   silenceThreshold, silenceElapsed, closeRet, live,
                   hotwords, silenceSet, silenceRun>>

\* the loop without the test n == 0: detection runs on the buffer as it is
ReadNothing_RunsDetection ==
    /\ pc = "loop"
    /\ \E res \in Results : Detect("empty", 0, res, FALSE)

\* the loop returning nil when Read gives 0 bytes and no error
ReadNothing_Returns ==
    /\ pc = "loop"
    /\ bytes' = <<>>
    /\ pc' = "idle"
    /\ ret' = "nil"
    /\ last' = [NoStep EXCEPT !.kind = "empty", !.before = silenceElapsed,
                              !.run = silenceRun]
    /\ UNCHANGED <<initialized, raw, handlers, modelStr, sensitivityStr,
                   silenceThreshold, silenceElapsed, closeRet, live,
                   hotwords, silenceSet, silenceRun>>

\* one iteration of the loop: Read gives 0 bytes and no error; sleep and retry
ReadNothing ==
    /\ pc = "loop"
    /\ bytes' = Fill(bytes, 0)
    /\ last' = [NoStep EXCEPT !.kind = "empty", !.before = silenceElapsed,
                              !.run = silenceRun]
    /\ UNCHANGED <<initialized, raw, handlers, modelStr, sensitivityStr,
                   silenceThreshold, silenceElapsed, pc, ret, closeRet, live,
                   hotwords, silenceSet, silenceRun>>

Next ==
    \/ \E r \in Registrations : Handle(r.hotword, r.Handler)
    \/ \E t \in Thresholds, h \in SilenceHandlers : HandleSilence(t, h)
    \/ \E f \in Formats : ReadAndDetect(f)
    \/ \E f \in Formats : AudioFormat(f)
    \/ Close
    \/ \E n \in 1 .. BufSize, res \in Results : ReadChunk(n, res)
    \/ \E n \in 0 .. BufSize, res \in Results : ReadEOF(n, res)
    \/ ReadError
    \/ ReadNothing

Spec == Init /\ [][Next]_vars

----------------------------------------------------------------------------
(* Properties *)

\* the latest loop iteration ran detection and the engine answered
Detected == last.kind \in {"chunk", "eof"} /\ last.engineCalled

\* the latest loop iteration got a positive code that has a handler
BoundKeyword ==
    Detected /\ last.result > 0 /\ last.result \in DOMAIN handlers

\* the handler call owed to the hotword that Handle bound under code k
CallOf(k) ==
    LET r == CHOOSE x \in {hotwords[i] : i \in 1 .. Len(hotwords)} : x.code = k
    IN [Handler |-> r.Handler, keyword |-> r.hotword.Name]

\* when the silence handler was called, it was called with "silence"
SilenceKeyword ==
    (Detected /\ last.result = snowboyResultSilence /\ last.called # <<>>)
        => last.called = <<[Handler |-> handlers[snowboyResultSilence].Handler,
                            keyword |-> <<"silence">>]>>

\* C1: the Nth hotword registered is bound under result code N, so the positive
\* keys of the handler map are exactly 1..(number of hotwords registered)
C1_NthHotwordUnderCodeN ==
    /\ {k \in DOMAIN handlers : k > 0} = 1 .. Len(hotwords)
    /\ \A i \in 1 .. Len(hotwords) :
          handlers[i] = [Handler |-> hotwords[i].Handler,
                         keyword |-> hotwords[i].hotword.Name]

\* C2 as stated: on a positive code K with a handler bound, exactly that handler
\* is called exactly once with the Name of its hotword, no other handler is
\* called, and ReadAndDetect goes on to the next read; the silence handler is
\* only ever called with "silence"
C2_BoundKeywordCalledOnceAndContinues ==
    /\ BoundKeyword =>
          (/\ last.called = <<CallOf(last.result)>>
           /\ last.err = "nil"
           /\ pc = "loop" /\ ret = "none")
    /\ SilenceKeyword

\* C2 amended: as C2, but ReadAndDetect goes on to the next read only when the
\* chunk came from a read without error; on the end-of-stream pass it returns nil
C2_BoundKeywordCalledOnce ==
    /\ BoundKeyword =>
          (/\ last.called = <<CallOf(last.result)>>
           /\ last.err = "nil"
           /\ (last.kind = "chunk" => (pc = "loop" /\ ret = "none"))
           /\ (last.kind = "eof" => (pc = "idle" /\ ret = "nil")))
    /\ SilenceKeyword

C2_Witness ==
    /\ BoundKeyword /\ last.kind = "chunk" /\ last.result = 2
    /\ last.called = <<[Handler |-> "h2", keyword |-> <<"b">>]>>
    /\ Len(hotwords) = 2 /\ silenceSet /\ silenceThreshold > 0

\* C3: with a silence handler registered with threshold T, the silence handler is
\* called on a silence chunk exactly when the summed duration of the consecutive
\* silence chunks up to it (since the last reset) is at least T; with T = 0 it is
\* called on every silence chunk; silenceElapsed is 0 right after every call
C3_SilenceFiresIffRunReachesThreshold ==
    (Detected /\ last.result = snowboyResultSilence
              /\ snowboyResultSilence \in DOMAIN handlers) =>
        (/\ (last.called # <<>>) <=> (last.run >= silenceThreshold)
         /\ (silenceThreshold = 0 => last.called # <<>>)
         /\ (last.called # <<>> => silenceElapsed = 0))

\* C4: a chunk whose result is a positive code or the engine-error code leaves
\* silenceElapsed at zero, whatever had accumulated before it
C4_InterruptionResetsElapsed ==
    (Detected /\ last.result \notin {snowboyResultSilence, snowboyResultNoDetection})
        => silenceElapsed = 0

C4_Witness ==
    /\ Detected /\ last.before > 0 /\ last.result = snowboyResultError
    /\ silenceElapsed = 0

\* C5: on a positive code K with no handler bound, ReadAndDetect returns
\* NoHandler for that chunk, calls no handler and reads no more
C5_UnboundKeywordIsNoHandler ==
    (Detected /\ last.result > 0 /\ last.result \notin DOMAIN handlers) =>
        (/\ last.err = "NoHandler" /\ ret = "NoHandler"
         /\ last.called = <<>>
         /\ pc = "idle")

C5_Witness ==
    /\ Detected /\ last.kind = "chunk" /\ last.result = 2
    /\ DOMAIN handlers = {1, snowboyResultSilence}
    /\ ret = "NoHandler"

\* C6: when HandleSilence was never called, a silence result makes ReadAndDetect
\* return NoHandler, whatever silenceElapsed and silenceThreshold are
C6_SilenceWithoutHandlerIsNoHandler ==
    (Detected /\ last.result = snowboyResultSilence /\ ~silenceSet) =>
        (/\ last.err = "NoHandler" /\ ret = "NoHandler"
         /\ last.called = <<>>
         /\ pc = "idle")

C6_Witness ==
    /\ Detected /\ last.result = snowboyResultSilence /\ ~silenceSet
    /\ last.before > 0 /\ Len(hotwords) > 0
    /\ ret = "NoHandler"

\* C7: on the engine-error code, ReadAndDetect returns SnowboyLibraryError at
\* once: no handler is called and there is no further read or detection
C7_EngineErrorIsFatal ==
    (Detected /\ last.result = snowboyResultError) =>
        (/\ last.err = "SnowboyLibraryError" /\ ret = "SnowboyLibraryError"
         /\ last.called = <<>>
         /\ pc = "idle")

C7_Witness ==
    /\ Detected /\ last.kind = "chunk" /\ last.result = snowboyResultError
    /\ DOMAIN handlers = {1, 2, snowboyResultSilence}
    /\ ret = "SnowboyLibraryError"

\* a step of the loop in which detection ran and the result code was 0
NoDetectionStep ==
    /\ pc = "loop"
    /\ last'.kind \in {"chunk", "eof"} /\ last'.engineCalled
    /\ last'.result = snowboyResultNoDetection

\* what C8 says of such a step, apart from what ReadAndDetect does next
NoDetectionFrame ==
    /\ last'.called = <<>> /\ last'.err = "nil"
    /\ handlers' = handlers /\ silenceThreshold' = silenceThreshold
    /\ silenceElapsed' = 0

\* C8 as stated: a chunk with result code 0 calls no handler, gives no error,
\* leaves the handler map and silenceThreshold as they were and silenceElapsed
\* at zero, and the loop goes on to the next read
C8_NoDetectionContinues ==
    [][NoDetectionStep => (NoDetectionFrame /\ pc' = "loop" /\ ret' = "none")]_vars

\* C8 amended: as C8, but the loop goes on to the next read only when the chunk
\* came from a read without error; on the end-of-stream pass ReadAndDetect
\* returns nil
C8_NoDetectionFrame ==
    [][NoDetectionStep =>
          (/\ NoDetectionFrame
           /\ (last'.kind = "chunk" => (pc' = "loop" /\ ret' = "none"))
           /\ (last'.kind = "eof" => (pc' = "idle" /\ ret' = "nil")))]_vars

C8_Witness ==
    /\ Detected /\ last.kind = "chunk" /\ last.result = snowboyResultNoDetection
    /\ last.before > 0 /\ silenceElapsed = 0
    /\ pc = "loop"

\* C9: after a read of n > 0 bytes without error, the chunk given to detection
\* is exactly the n bytes just read, and a silence chunk that does not call the
\* handler adds the duration of those n bytes to silenceElapsed
C9_ChunkIsFirstNBytes ==
    (last.kind = "chunk" /\ last.engineCalled) =>
        (/\ last.data = [i \in 1 .. last.n |-> "fresh"]
         /\ (last.result = snowboyResultSilence /\ last.err = "nil"
                 /\ last.called = <<>>)
               => silenceElapsed = last.before + ElapseTime(last.n, raw.format))

\* C10: on end-of-stream with no bytes read, the final detection does nothing:
\* the engine is not called, no handler is called, silenceElapsed stays, and
\* ReadAndDetect returns nil
C10_EmptyFinalPassIsNoOp ==
    (last.kind = "eof" /\ last.n = 0) =>
        (/\ ~last.engineCalled
         /\ last.called = <<>>
         /\ silenceElapsed = last.before
         /\ ret = "nil")

\* the fields joined with commas, as the engine expects them
RECURSIVE JoinFields(_)
JoinFields(fields) ==
    IF fields = <<>> THEN <<>>
    ELSE IF Len(fields) = 1 THEN fields[1]
    ELSE JoinFields(SubSeq(fields, 1, Len(fields) - 1)) \o <<",">> \o fields[Len(fields)]

\* s without the suffix, when s ends with it
TrimSuffix(s, suffix) ==
    IF Len(s) >= Len(suffix) /\ SubSeq(s, Len(s) - Len(suffix) + 1, Len(s)) = suffix
    THEN SubSeq(s, 1, Len(s) - Len(suffix))
    ELSE s

\* the name C14 gives a model identifier
NameOfModel(model) == TrimSuffix(LastPart(model), <<".", "u", "m", "d", "l">>)

\* C11: Close on a Detector that is not initialized (never used, or closed
\* already) returns an error and releases nothing
C11_CloseUninitializedIsError ==
    [][(pc = "idle" /\ closeRet' # "none" /\ ~initialized) =>
          (/\ closeRet' = "snowboy not initialize"
           /\ live' = live /\ raw' = raw /\ initialized' = FALSE)]_vars

C11_Witness ==
    /\ closeRet = "snowboy not initialize"
    /\ raw.state = "deleted" /\ live = 0

\* C12: after a successful Close, ReadAndDetect and AudioFormat are rejected:
\* no engine is constructed and no detection runs
C12_NoOperationAfterClose ==
    [][raw.state = "deleted" =>
          (raw'.state = "deleted" /\ live' = live /\ pc' = "idle")]_vars

\* C13: after N >= 1 hotword registrations, interleaved in any order with
\* HandleSilence, modelStr and sensitivityStr are the N models and the N
\* sensitivities in registration order with a comma between neighbours only
C13_JoinedStringsHaveNFields ==
    Len(hotwords) >= 1 =>
        /\ modelStr = JoinFields([i \in 1 .. Len(hotwords) |-> hotwords[i].hotword.Model])
        /\ sensitivityStr =
              JoinFields([i \in 1 .. Len(hotwords) |->
                             FormatFloat(hotwords[i].hotword.Sensitivity)])

\* C14: the Name NewHotword sets is the last '/'-separated part of the model
\* identifier without a trailing ".umdl", and with nothing else removed
C14_NameIsBaseWithoutExtension ==
    \A i \in 1 .. Len(hotwords) :
        hotwords[i].hotword.Name = NameOfModel(hotwords[i].hotword.Model)

\* C15: once the Detector is initialized, a call of Handle changes neither the
\* handler map nor modelStr, sensitivityStr or what the engine was built with
C15_HandleAfterInitializeHasNoEffect ==
    [][(initialized /\ hotwords' # hotwords) =>
          (/\ handlers' = handlers
           /\ modelStr' = modelStr /\ sensitivityStr' = sensitivityStr
           /\ raw' = raw)]_vars

\* C16: a read of 0 bytes without error runs no detection, calls no handler,
\* leaves silenceElapsed and the rest of the Detector as they were, and
\* ReadAndDetect stays in its loop to read again
C16_EmptyReadIsRetried ==
    [][(pc = "loop" /\ last'.kind = "empty") =>
          (/\ ~last'.engineCalled /\ last'.called = <<>>
           /\ UNCHANGED <<initialized, raw, handlers, modelStr, sensitivityStr,
                          silenceThreshold, silenceElapsed, live>>
           /\ pc' = "loop" /\ ret' = "none")]_vars

C16_Witness ==
    /\ last.kind = "empty" /\ pc = "loop" /\ ret = "none"
    /\ silenceElapsed > 0 /\ silenceElapsed = last.before

\* C17: on end-of-stream ReadAndDetect returns what the final detection and
\* routing pass returns: nil, NoHandler or SnowboyLibraryError, never io.EOF
C17_EndOfStreamReturnsFinalPass ==
    last.kind = "eof" =>
        /\ pc = "idle"
        /\ ret = last.err
        /\ ret \in {"nil", "NoHandler", "SnowboyLibraryError"}

C17_Witness ==
    /\ last.kind = "eof" /\ last.engineCalled /\ last.n > 0
    /\ last.result = 2 /\ ret = "NoHandler"

\* C18: the engines constructed and not yet deleted number 1 when initialized
\* and 0 otherwise, and the engine stays as it was built while initialized
C18_OneEngineWhileInitialized ==
    /\ [](/\ live = (IF initialized THEN 1 ELSE 0)
          /\ (initialized <=> raw.state = "live"))
    /\ [][(initialized /\ initialized') => raw' = raw]_vars

C18_Witness ==
    /\ initialized /\ live = 1 /\ raw.state = "live"
    /\ pc = "idle" /\ ret = "nil" /\ last.kind = "eof"
    /\ raw.models # modelStr

\* C19: with a silence handler and a threshold T > 0, silenceElapsed is at
\* least 0 and below T after every detection and routing step, and a new call
\* of ReadAndDetect starts from the silenceElapsed the last one left
C19_ElapsedStaysBelowThreshold ==
    /\ []((Detected /\ silenceSet /\ silenceThreshold > 0) =>
             (0 <= silenceElapsed /\ silenceElapsed < silenceThreshold))
    /\ [][(pc = "idle" /\ pc' = "loop") => silenceElapsed' = silenceElapsed]_vars

C19_Witness ==
    /\ Detected /\ silenceSet /\ silenceThreshold > 0
    /\ last.result = snowboyResultSilence /\ last.called # <<>>
    /\ last.before > 0 /\ silenceElapsed = 0

\* the source signals end-of-stream or a read error
SourceEnds ==
    \/ \E n \in 0 .. BufSize, res \in Results : ReadEOF(n, res)
    \/ ReadError

\* the Detector with a source that ends at some time
LiveSpec == Spec /\ WF_vars(SourceEnds)

\* C20: ReadAndDetect returns only on a source error, on end-of-stream or on a
\* routing error; a read of 0 bytes without error keeps it in its loop; and
\* with a source that ends at some time it returns
C20_ReturnsWhenSourceEnds ==
    /\ []((pc = "idle" /\ ret # "none") =>
             (last.kind \in {"eof", "error"} \/ last.err # "nil"))
    /\ [][(pc = "loop" /\ last'.kind = "empty") => pc' = "loop"]_vars
    /\ (pc = "loop" ~> pc = "idle")

C20_Witness ==
    /\ pc = "idle" /\ ret = "ReadError" /\ last.kind = "error"
    /\ silenceElapsed > 0
====
